---------------------------- MODULE Spec2Model ----------------------------
(***************************************************************************)
(* Closeout runner wrappers: python/tools/run_closeout.py (the hardened    *)
(* orchestrator, "tools") and scripts/run_closeout.py (the CI wrapper,     *)
(* "scripts").  The evaluator binary is an external process: its exit      *)
(* code, its output and whether it ever exits are chosen nondeterministic- *)
(* ally.  Python values are tagged records; Python exceptions are the exc  *)
(* field of an operator's result.                                          *)
(***************************************************************************)
EXTENDS Integers, Sequences, FiniteSets, TLC

(***************************************************************************)
(* Python values, as json.load produces them.                              *)
(***************************************************************************)
None == [t |-> "None"]
PyInt(n) == [t |-> "int", n |-> n]
PyFloat(f) == [t |-> "float", f |-> f]
PyStr(s) == [t |-> "str", s |-> s]
PyList(l) == [t |-> "list", items |-> l]
\* a dict is its keys in insertion order and the key -> value map
PyDict(ks, d) == [t |-> "dict", keys |-> ks, d |-> d]
EmptyDict == PyDict(<<>>, <<>>)
EmptyList == PyList(<<>>)

isinstance(x, ty) == x.t = ty
hashable(x) == x.t \notin {"list", "dict"}

\* d.get(key, default) on a dict value
dict_get(x, key, default) == IF key \in DOMAIN x.d THEN x.d[key] ELSE default

(***************************************************************************)
(* Text helpers.                                                           *)
(***************************************************************************)
RECURSIVE Join(_, _)
Join(sep, ss) ==
  IF ss = <<>> THEN ""
  ELSE IF Len(ss) = 1 THEN ss[1]
  ELSE ss[1] \o sep \o Join(sep, Tail(ss))

RECURSIVE Repeat(_, _)
Repeat(s, n) ==
  IF n = 0 THEN ""
  ELSE LET h == Repeat(s, n \div 2)
       IN IF n % 2 = 0 THEN h \o h ELSE h \o h \o s

\* printable ASCII (less the backquote) in code point order
Chars == " !\"#$%&'()*+,-./0123456789:;<=>?@ABCDEFGHIJKLMNOPQRSTUVWXYZ[\\]^_abcdefghijklmnopqrstuvwxyz{|}~"
Ord(c) == CHOOSE i \in 1..Len(Chars) : SubSeq(Chars, i, i) = c

\* a < b on str: lexicographic by code point
RECURSIVE str_lt(_, _)
str_lt(a, b) ==
  IF b = "" THEN FALSE
  ELSE IF a = "" THEN TRUE
  ELSE LET ca == Ord(SubSeq(a, 1, 1))
           cb == Ord(SubSeq(b, 1, 1))
       IN IF ca # cb THEN ca < cb
          ELSE str_lt(SubSeq(a, 2, Len(a)), SubSeq(b, 2, Len(b)))

IsSpace(c) == c \in {" ", "\n", "\t"}
RECURSIVE lstrip(_)
lstrip(s) ==
  IF s # "" /\ IsSpace(SubSeq(s, 1, 1)) THEN lstrip(SubSeq(s, 2, Len(s))) ELSE s
RECURSIVE rstrip(_)
rstrip(s) ==
  IF s # "" /\ IsSpace(SubSeq(s, Len(s), Len(s)))
  THEN rstrip(SubSeq(s, 1, Len(s) - 1)) ELSE s
strip(s) == lstrip(rstrip(s))

\* str(x) and repr(x) of a value
RECURSIVE repr(_)
repr(x) ==
  IF x.t = "None" THEN "None"
  ELSE IF x.t = "int" THEN ToString(x.n)
  ELSE IF x.t = "float" THEN x.f
  ELSE IF x.t = "str" THEN ("'" \o x.s \o "'")
  ELSE IF x.t = "list"
  THEN "[" \o Join(", ", [i \in 1..Len(x.items) |-> repr(x.items[i])]) \o "]"
  ELSE "{" \o Join(", ", [i \in 1..Len(x.keys) |->
                           ("'" \o x.keys[i] \o "': " \o repr(x.d[x.keys[i]]))])
           \o "}"
str(x) == IF x.t = "str" THEN x.s ELSE repr(x)

(***************************************************************************)
(* python/tools/run_closeout.py: pure helpers.                             *)
(***************************************************************************)
DEFAULT_MAX_LEN == 500
MSG_MAX_LEN == 120
TOP_ISSUES == 5

\* the table shifted by one: 1 taken for NO_GO, 2 for NEEDS_DATA
status_shifted(code) ==
  IF code = 0 THEN "GO"
  ELSE IF code = 1 THEN "NO_GO"
  ELSE IF code = 2 THEN "NEEDS_DATA"
  ELSE "ERROR"

_status_from_exit_code(code) ==
  IF code = 0 THEN "GO"
  ELSE IF code = 2 THEN "NO_GO"
  ELSE IF code = 3 THEN "NEEDS_DATA"
  ELSE "ERROR"

_safe_str(x, max_len) ==
  LET s == str(x)
  IN IF Len(s) <= max_len THEN s ELSE SubSeq(s, 1, max_len - 3) \o "..."

\* what a call yields: exc is "" on a normal return, the exception's name otherwise
Raised(e) == [exc |-> e, text |-> "", gates |-> <<>>, counts_txt |-> "",
              top_lines |-> <<>>]

\* lines 59-62: the kind of every entry of issues, in list order
issue_kinds(issues) ==
  IF isinstance(issues, "list")
  THEN [i \in 1..Len(issues.items) |->
          IF isinstance(issues.items[i], "dict")
          THEN dict_get(issues.items[i], "kind", PyStr("Unknown"))
          ELSE PyStr("Unknown")]
  ELSE <<>>

\* the keys of counts in insertion order (first occurrence)
RECURSIVE first_occurrences(_)
first_occurrences(ks) ==
  IF ks = <<>> THEN <<>>
  ELSE LET init == first_occurrences(SubSeq(ks, 1, Len(ks) - 1))
           k == ks[Len(ks)]
       IN IF \E i \in 1..Len(init) : init[i] = k THEN init ELSE Append(init, k)

tally(ks, k) == Cardinality({i \in 1..Len(ks) : ks[i] = k})

\* a < b between dict keys; only defined within one type
comparable(a, b) == a.t = b.t /\ a.t \in {"int", "str"}
key_lt(a, b) == IF a.t = "int" THEN a.n < b.n ELSE str_lt(a.s, b.s)

\* sorted(counts.items()): TypeError as soon as two keys do not compare
sort_raises(ks) ==
  \E i, j \in 1..Len(ks) : i # j /\ ~comparable(ks[i], ks[j])
RECURSIVE sorted_keys(_)
sorted_keys(ks) ==
  IF ks = <<>> THEN <<>>
  ELSE LET m == CHOOSE i \in 1..Len(ks) :
                  \A j \in 1..Len(ks) : j = i \/ key_lt(ks[i], ks[j])
       IN <<ks[m]>> \o sorted_keys([i \in 1..(Len(ks) - 1) |->
                                      IF i < m THEN ks[i] ELSE ks[i + 1]])

\* xs[:n]
slice_to(xs, n) == SubSeq(xs, 1, IF Len(xs) < n THEN Len(xs) ELSE n)

\* lines 64-72: the detail lines of the entries of issues[:5]
RECURSIVE top_lines_of(_)
top_lines_of(items) ==
  IF items = <<>> THEN <<>>
  ELSE LET it == items[1]
           rest == top_lines_of(Tail(items))
       IN IF ~isinstance(it, "dict") THEN rest
          ELSE LET code == _safe_str(dict_get(it, "code", PyStr("")), DEFAULT_MAX_LEN)
                   msg == _safe_str(dict_get(it, "message", PyStr("")), MSG_MAX_LEN)
               IN IF code # "" \/ msg # ""
                  THEN <<strip("- " \o code \o ": " \o msg)>> \o rest
                  ELSE rest

_summarize_report(report) ==
  IF ~isinstance(report, "dict") THEN Raised("AttributeError")
  ELSE
  LET gates == dict_get(report, "gates", EmptyDict)
      issues == dict_get(report, "issues", EmptyList)
  IN
  IF ~isinstance(gates, "dict") THEN Raised("AttributeError")
  ELSE
  LET mass_gate == dict_get(gates, "mass_gate", PyStr("Unknown"))
      disk_gate == dict_get(gates, "disk_area_gate", PyStr("Unknown"))
      power_gate == dict_get(gates, "power_gate", PyStr("Unknown"))
      kinds == issue_kinds(issues)
  IN
  IF \E i \in 1..Len(kinds) : ~hashable(kinds[i]) THEN Raised("TypeError")
  ELSE
  LET keys == first_occurrences(kinds)
      top_lines == IF isinstance(issues, "list")
                   THEN top_lines_of(slice_to(issues.items, TOP_ISSUES))
                   ELSE <<>>
      top_txt == IF top_lines # <<>> THEN Join("\n", top_lines) ELSE "- (none)"
  IN
  IF sort_raises(keys) THEN Raised("TypeError")
  ELSE
  LET sk == sorted_keys(keys)
      counts_txt ==
        IF keys # <<>>
        THEN Join(", ", [i \in 1..Len(sk) |->
                           str(sk[i]) \o "=" \o ToString(tally(kinds, sk[i]))])
        ELSE "none"
  IN [exc |-> "",
      text |-> "Closeout Summary\n"
               \o "- Gates: mass=" \o str(mass_gate) \o ", disk_area="
               \o str(disk_gate) \o ", power=" \o str(power_gate) \o "\n"
               \o "- Issue counts: " \o counts_txt \o "\n"
               \o "- Top issues:\n" \o top_txt \o "\n",
      gates |-> <<str(mass_gate), str(disk_gate), str(power_gate)>>,
      counts_txt |-> counts_txt,
      top_lines |-> IF top_lines # <<>> THEN top_lines ELSE <<"- (none)">>]

(***************************************************************************)
(* The report source: the text of the output file or of the captured       *)
(* stdout, and json.load / json.loads on it.                               *)
(***************************************************************************)
NoFile == "<no file>"

D_EMPTY == ""
D_TRUNCATED == "{\"gates\": {"
D_NULL == "null"
D_LIST == "[]"
D_NAN == "NaN"
D_GOOD == "{\"gates\": {\"mass_gate\": \"Pass\", \"disk_area_gate\": \"Fail\", \"power_gate\": \"Pass\"}, \"issues\": [{\"code\": \"E1\", \"message\": \"disk area\", \"kind\": \"Error\"}]}"
D_DEMO == "{\"variant_name\": \"v1\", \"gate_result\": {\"decision\": \"NoGo\", \"failed_gates\": [\"mass\"], \"missing_data\": []}, \"mass_delta\": {\"delta_mass_total_kg\": 3}}"
D_BADGATE == "{\"gates\": null, \"gate_result\": 5}"

Docs == {D_EMPTY, D_TRUNCATED, D_NULL, D_LIST, D_NAN, D_GOOD, D_DEMO, D_BADGATE}

\* the document is JSON text by RFC 8259
IsValidJSON(text) == text \in {D_NULL, D_LIST, D_GOOD, D_DEMO, D_BADGATE}

V_GOOD ==
  PyDict(<<"gates", "issues">>,
         ("gates" :> PyDict(<<"mass_gate", "disk_area_gate", "power_gate">>,
                            ("mass_gate" :> PyStr("Pass"))
                            @@ ("disk_area_gate" :> PyStr("Fail"))
                            @@ ("power_gate" :> PyStr("Pass"))))
         @@ ("issues" :> PyList(<<PyDict(<<"code", "message", "kind">>,
                                         ("code" :> PyStr("E1"))
                                         @@ ("message" :> PyStr("disk area"))
                                         @@ ("kind" :> PyStr("Error")))>>)))
V_DEMO ==
  PyDict(<<"variant_name", "gate_result", "mass_delta">>,
         ("variant_name" :> PyStr("v1"))
         @@ ("gate_result" :> PyDict(<<"decision", "failed_gates", "missing_data">>,
                                     ("decision" :> PyStr("NoGo"))
                                     @@ ("failed_gates" :> PyList(<<PyStr("mass")>>))
                                     @@ ("missing_data" :> EmptyList)))
         @@ ("mass_delta" :> PyDict(<<"delta_mass_total_kg">>,
                                    "delta_mass_total_kg" :> PyInt(3))))
V_BADGATE ==
  PyDict(<<"gates", "gate_result">>,
         ("gates" :> None) @@ ("gate_result" :> PyInt(5)))

\* json.loads(text): JSONDecodeError on text the decoder rejects; the decoder
\* accepts the literal NaN and loads JSON null as None
Loaded(v) == [exc |-> "", val |-> v]
json_loads(text) ==
  IF text = D_NULL THEN Loaded(None)
  ELSE IF text = D_LIST THEN Loaded(EmptyList)
  ELSE IF text = D_NAN THEN Loaded(PyFloat("nan"))
  ELSE IF text = D_GOOD THEN Loaded(V_GOOD)
  ELSE IF text = D_DEMO THEN Loaded(V_DEMO)
  ELSE IF text = D_BADGATE THEN Loaded(V_BADGATE)
  ELSE [exc |-> "JSONDecodeError", val |-> None]

\* _read_json_file(path): open() raises on a missing file
_read_json_file(content) ==
  IF content = NoFile THEN [exc |-> "FileNotFoundError", val |-> None]
  ELSE json_loads(content)

(***************************************************************************)
(* scripts/run_closeout.py: pure helpers.                                  *)
(***************************************************************************)
RULE_WIDTH == 60

\* bool(x)
truthy(x) ==
  IF x.t = "None" THEN FALSE
  ELSE IF x.t = "int" THEN x.n # 0
  ELSE IF x.t = "float" THEN TRUE
  ELSE IF x.t = "str" THEN x.s # ""
  ELSE IF x.t = "list" THEN x.items # <<>>
  ELSE x.keys # <<>>

\* len(x): TypeError on a value without a length
has_len(x) == x.t \in {"str", "list", "dict"}
len(x) ==
  IF x.t = "str" THEN Len(x.s) ELSE IF x.t = "list" THEN Len(x.items) ELSE Len(x.keys)

\* the exception, if any, of the field accesses parse_closeout_json (verbose)
\* and generate_summary share: data.get, gate_result.get, len(...)
gate_result_exc(data) ==
  IF ~isinstance(data, "dict") THEN "AttributeError"
  ELSE LET gate_result == dict_get(data, "gate_result", EmptyDict)
       IN IF ~isinstance(gate_result, "dict") THEN "AttributeError"
          ELSE IF \/ ~has_len(dict_get(gate_result, "failed_gates", EmptyList))
                  \/ ~has_len(dict_get(gate_result, "missing_data", EmptyList))
          THEN "TypeError"
          ELSE ""

generate_summary(data) ==
  IF gate_result_exc(data) # "" THEN [exc |-> gate_result_exc(data), text |-> ""]
  ELSE
  LET gate_result == dict_get(data, "gate_result", EmptyDict)
      mass_delta == dict_get(data, "mass_delta", EmptyDict)
  IN
  IF ~isinstance(mass_delta, "dict") THEN [exc |-> "AttributeError", text |-> ""]
  ELSE
  [exc |-> "",
   text |-> Join("\n", <<
     Repeat("=", RULE_WIDTH),
     "CLOSEOUT SUMMARY",
     Repeat("=", RULE_WIDTH),
     "Variant: " \o str(dict_get(data, "variant_name", PyStr("unknown"))),
     "Concept: " \o str(dict_get(data, "variant_concept", PyStr("unknown"))),
     "",
     "Gate Decision: " \o str(dict_get(gate_result, "decision", PyStr("unknown"))),
     "Failed gates: "
       \o ToString(len(dict_get(gate_result, "failed_gates", EmptyList))),
     "Missing data: "
       \o ToString(len(dict_get(gate_result, "missing_data", EmptyList))),
     "",
     "Delta mass: "
       \o str(dict_get(mass_delta, "delta_mass_total_kg", PyStr("N/A"))) \o " kg",
     "Resulting mass: "
       \o str(dict_get(mass_delta, "resulting_aircraft_mass_kg", PyStr("N/A")))
       \o " kg",
     "Payload ratio: "
       \o str(dict_get(mass_delta, "resulting_payload_ratio", PyStr("N/A"))),
     Repeat("=", RULE_WIDTH) >>)]

\* parse_closeout_json(json_path, verbose): the parsed document, or None on
\* any exception; exc names the exception the function caught
parse_closeout_json(content, verbose) ==
  LET loaded == _read_json_file(content)
  IN IF loaded.exc # "" THEN [exc |-> loaded.exc, val |-> None]
     ELSE IF verbose /\ gate_result_exc(loaded.val) # ""
     THEN [exc |-> gate_result_exc(loaded.val), val |-> None]
     ELSE [exc |-> "", val |-> loaded.val]

(***************************************************************************)
(* State of one run of a wrapper.                                          *)
(***************************************************************************)
VARIABLES
  prog,          \* "tools" | "scripts": the wrapper that runs; "summarizer": a bare call
  pc,            \* position in the wrapper
  bin_exists,    \* the binary path names an existing file
  out_given,     \* tools: --out was given
  verbose,       \* scripts: --verbose
  json_is_final, \* scripts: json_path is output_dir/closeout.json
  timeout_s,     \* tools: --timeout
  elapsed,       \* time on subprocess.run's timeout clock
  proc,          \* the evaluator process: "none" | "running" | "exited" | "killed"
  returncode,    \* the evaluator's exit code, once it exited
  file,          \* content of the output path, NoFile when it does not exist
  final_file,    \* scripts: content of output_dir/closeout.json when copied
  cap_stdout,    \* captured stdout of the evaluator
  cap_stderr,    \* captured stderr of the evaluator
  status,        \* tools: status local of run_closeout, "" before it is set
  exit_code,     \* scripts: exit_code local of main
  report_json,   \* tools: report_json / res.out_json; scripts: data
  res,           \* tools: <<RunResult>> once built, <<>> before
  summary,       \* what the summary call yielded
  console,       \* what the wrapper printed, in order
  outcome,       \* of main: "running" | "returned" | "raised"
  ret,           \* value main returned
  failure,       \* "" | "BinaryNotFound" | "SpawnFailure" | "TimeoutExceeded"
  runs,          \* calls of subprocess.run
  spawns,        \* evaluator processes started
  resolves       \* report resolutions performed

inputs == <<prog, bin_exists, out_given, verbose, json_is_final, timeout_s>>
vars == <<prog, pc, bin_exists, out_given, verbose, json_is_final, timeout_s,
          elapsed, proc, returncode, file, final_file, cap_stdout, cap_stderr,
          status, exit_code, report_json, res, summary, console, outcome, ret,
          failure, runs, spawns, resolves>>

MaxExit == 4
MaxTimeout == 2
LOCAL_ERROR == 1
STDERR_SNIPPET == 2000

ExitCodes == (-MaxExit)..MaxExit
ErrTexts == {"", "warning: mass breakdown missing\n"}
BIN == "closeout_cli"
OUT == "out.json"

NotCalled == Raised("")

Init ==
  /\ prog \in {"tools", "scripts"}
  /\ pc = IF prog = "tools" THEN "validate" ELSE "ensure_dir"
  /\ bin_exists \in BOOLEAN
  /\ out_given \in (IF prog = "tools" THEN BOOLEAN ELSE {TRUE})
  /\ verbose \in (IF prog = "scripts" THEN BOOLEAN ELSE {FALSE})
  /\ json_is_final \in (IF prog = "scripts" THEN BOOLEAN ELSE {TRUE})
  /\ timeout_s \in (IF prog = "tools" THEN 0..MaxTimeout ELSE {0})
  /\ elapsed = 0
  /\ proc = "none"
  /\ returncode = 0
  /\ file \in (IF out_given THEN {NoFile} \cup Docs ELSE {NoFile})
  /\ final_file = NoFile
  /\ cap_stdout = ""
  /\ cap_stderr = ""
  /\ status = ""
  /\ exit_code = 0
  /\ report_json = None
  /\ res = <<>>
  /\ summary = NotCalled
  /\ console = <<>>
  /\ outcome = "running"
  /\ ret = 0
  /\ failure = ""
  /\ runs = 0
  /\ spawns = 0
  /\ resolves = 0

(***************************************************************************)
(* The evaluator process.                                                  *)
(***************************************************************************)
\* the evaluator writes its report to the output path it was given
EvaluatorWrites ==
  /\ proc = "running"
  /\ out_given
  /\ \E doc \in Docs : file' = doc
  /\ UNCHANGED <<inputs, pc, elapsed, proc, returncode, final_file, cap_stdout,
                 cap_stderr, status, exit_code, report_json, res, summary,
                 console, outcome, ret, failure, runs, spawns, resolves>>

\* the evaluator exits; subprocess.run returns its code and captured output
EvaluatorExits ==
  /\ proc = "running"
  /\ pc = "wait"
  /\ \E code \in ExitCodes, out \in Docs, err \in ErrTexts :
       /\ returncode' = code
       /\ cap_stdout' = out
       /\ cap_stderr' = err
  /\ proc' = "exited"
  /\ elapsed' = 0
  /\ pc' = IF prog = "tools" THEN "classify" ELSE "demo_output"
  /\ UNCHANGED <<inputs, file, final_file, status, exit_code, report_json, res,
                 summary, console, outcome, ret, failure, runs, spawns, resolves>>

(***************************************************************************)
(* python/tools/run_closeout.py: main and run_closeout.                    *)
(***************************************************************************)
\* main's except clauses (lines 175-180): write the error, return 1
main_fails(kind, msg) ==
  /\ failure' = kind
  /\ console' = Append(console, "ERROR: " \o msg \o "\n")
  /\ ret' = LOCAL_ERROR
  /\ outcome' = "returned"
  /\ pc' = "done"

\* run_closeout without the existence check of lines 94-95
run_closeout_unvalidated ==
  /\ prog = "tools"
  /\ pc = "validate"
  /\ pc' = "spawn"
  /\ UNCHANGED <<inputs, elapsed, proc, returncode, file, final_file, cap_stdout,
                 cap_stderr, status, exit_code, report_json, res, summary,
                 console, outcome, ret, failure, runs, spawns, resolves>>

\* run_closeout lines 94-95
run_closeout_validate ==
  /\ prog = "tools"
  /\ pc = "validate"
  /\ IF bin_exists
     THEN /\ pc' = "spawn"
          /\ UNCHANGED <<failure, console, ret, outcome>>
     ELSE main_fails("BinaryNotFound",
                     _safe_str(PyStr("Binary not found: " \o BIN), DEFAULT_MAX_LEN))
  /\ UNCHANGED <<inputs, elapsed, proc, returncode, file, final_file,
                 cap_stdout, cap_stderr, status, exit_code, report_json, res,
                 summary, runs, spawns, resolves>>

\* run_closeout lines 111-117: the process starts
run_closeout_spawn ==
  /\ prog = "tools"
  /\ pc = "spawn"
  /\ runs' = runs + 1
  /\ spawns' = spawns + 1
  /\ proc' = "running"
  /\ elapsed' = 0
  /\ pc' = "wait"
  /\ UNCHANGED <<inputs, returncode, file, final_file, cap_stdout, cap_stderr,
                 status, exit_code, report_json, res, summary, console,
                 outcome, ret, failure, resolves>>

\* run_closeout lines 111-117: the OS cannot start the process (OSError)
run_closeout_spawn_fails ==
  /\ prog = "tools"
  /\ pc = "spawn"
  /\ runs' = runs + 1
  /\ main_fails("SpawnFailure",
                _safe_str(PyStr("[Errno 13] Permission denied: '" \o BIN \o "'"),
                          DEFAULT_MAX_LEN))
  /\ UNCHANGED <<inputs, elapsed, proc, returncode, file, final_file,
                 cap_stdout, cap_stderr, status, exit_code, report_json, res,
                 summary, spawns, resolves>>

\* time passes while subprocess.run waits
Tick ==
  /\ prog = "tools"
  /\ pc = "wait"
  /\ proc = "running"
  /\ elapsed < timeout_s
  /\ elapsed' = elapsed + 1
  /\ UNCHANGED <<inputs, pc, proc, returncode, file, final_file, cap_stdout,
                 cap_stderr, status, exit_code, report_json, res, summary,
                 console, outcome, ret, failure, runs, spawns, resolves>>

\* run_closeout line 115, main lines 175-177: the timeout expires, subprocess.run
\* kills the process and raises TimeoutExpired
run_closeout_timeout ==
  /\ prog = "tools"
  /\ pc = "wait"
  /\ proc = "running"
  /\ elapsed >= timeout_s
  /\ proc' = "killed"
  /\ elapsed' = 0
  /\ failure' = "TimeoutExceeded"
  /\ console' = Append(console, "ERROR: closeout_cli timed out\n")
  /\ ret' = LOCAL_ERROR
  /\ outcome' = "returned"
  /\ pc' = "done"
  /\ UNCHANGED <<inputs, returncode, file, final_file, cap_stdout, cap_stderr,
                 status, exit_code, report_json, res, summary, runs, spawns,
                 resolves>>

\* run_closeout line 119
run_closeout_classify ==
  /\ prog = "tools"
  /\ pc = "classify"
  /\ status' = _status_from_exit_code(returncode)
  /\ pc' = "resolve"
  /\ UNCHANGED <<inputs, elapsed, proc, returncode, file, final_file,
                 cap_stdout, cap_stderr, exit_code, report_json, res, summary,
                 console, outcome, ret, failure, runs, spawns, resolves>>

\* the report of run_closeout lines 120-131: None on any exception
resolve_report(given, content, out) ==
  LET r == IF given THEN _read_json_file(content) ELSE json_loads(out)
  IN IF r.exc # "" THEN None ELSE r.val

run_closeout_resolve ==
  /\ prog = "tools"
  /\ pc = "resolve"
  /\ report_json' = resolve_report(out_given, file, cap_stdout)
  /\ resolves' = resolves + 1
  /\ pc' = "result"
  /\ UNCHANGED <<inputs, elapsed, proc, returncode, file, final_file,
                 cap_stdout, cap_stderr, status, exit_code, res, summary,
                 console, outcome, ret, failure, runs, spawns>>

\* run_closeout lines 133-140
\* a RunResult whose status is downgraded when no report was parsed
RunResult_downgraded(code, st, given, out, err, json) ==
  [exit_code |-> code, status |-> IF json = None THEN "ERROR" ELSE st,
   out_path |-> IF given THEN PyStr(OUT) ELSE None,
   stdout |-> out, stderr |-> err, out_json |-> json]

RunResult(code, st, given, out, err, json) ==
  [exit_code |-> code, status |-> st,
   out_path |-> IF given THEN PyStr(OUT) ELSE None,
   stdout |-> out, stderr |-> err, out_json |-> json]

run_closeout_return ==
  /\ prog = "tools"
  /\ pc = "result"
  /\ res' = <<RunResult(returncode, status, out_given, cap_stdout, cap_stderr,
                        report_json)>>
  /\ pc' = "summarize"
  /\ UNCHANGED <<inputs, elapsed, proc, returncode, file, final_file,
                 cap_stdout, cap_stderr, status, exit_code, report_json,
                 summary, console, outcome, ret, failure, runs, spawns,
                 resolves>>

\* main lines 182-185: an exception of _summarize_report leaves main
main_summarize ==
  /\ prog = "tools"
  /\ pc = "summarize"
  /\ IF res[1].out_json # None
     THEN LET r == _summarize_report(res[1].out_json)
          IN /\ summary' = r
             /\ IF r.exc # ""
                THEN /\ outcome' = "raised"
                     /\ pc' = "done"
                     /\ UNCHANGED console
                ELSE /\ console' = Append(console, r.text)
                     /\ pc' = "stderr"
                     /\ UNCHANGED outcome
     ELSE /\ console' = Append(console, "Closeout Summary\n- (no JSON parsed)\n")
          /\ pc' = "stderr"
          /\ UNCHANGED <<summary, outcome>>
  /\ UNCHANGED <<inputs, elapsed, proc, returncode, file, final_file,
                 cap_stdout, cap_stderr, status, exit_code, report_json, res,
                 ret, failure, runs, spawns, resolves>>

\* main lines 187-193
stderr_echo(err) ==
  IF strip(err) # ""
  THEN LET snippet == SubSeq(err, 1, IF Len(err) < STDERR_SNIPPET
                                     THEN Len(err) ELSE STDERR_SNIPPET)
       IN <<"\n[closeout_cli stderr]\n", snippet>>
          \o (IF Len(err) > Len(snippet) THEN <<"\n...">> ELSE <<>>)
          \o <<"\n">>
  ELSE <<>>

main_stderr ==
  /\ prog = "tools"
  /\ pc = "stderr"
  /\ console' = console \o stderr_echo(res[1].stderr)
  /\ pc' = "return"
  /\ UNCHANGED <<inputs, elapsed, proc, returncode, file, final_file,
                 cap_stdout, cap_stderr, status, exit_code, report_json, res,
                 summary, outcome, ret, failure, runs, spawns, resolves>>

\* main line 195
main_return ==
  /\ prog = "tools"
  /\ pc = "return"
  /\ ret' = res[1].exit_code
  /\ outcome' = "returned"
  /\ pc' = "done"
  /\ UNCHANGED <<inputs, elapsed, proc, returncode, file, final_file,
                 cap_stdout, cap_stderr, status, exit_code, report_json, res,
                 summary, console, failure, runs, spawns, resolves>>

(***************************************************************************)
(* scripts/run_closeout.py: main and run_closeout_demo.                    *)
(***************************************************************************)
\* main lines 171-181
main_ensure_dir ==
  /\ prog = "scripts"
  /\ pc = "ensure_dir"
  /\ pc' = "spawn"
  /\ UNCHANGED <<inputs, elapsed, proc, returncode, file, final_file,
                 cap_stdout, cap_stderr, status, exit_code, report_json, res,
                 summary, console, outcome, ret, failure, runs, spawns,
                 resolves>>

running_line == IF verbose THEN <<"Running: " \o BIN \o " " \o OUT>> ELSE <<>>

\* run_closeout_demo lines 83-94: the process starts; subprocess.run is given
\* no timeout
run_closeout_demo_spawn ==
  /\ prog = "scripts"
  /\ pc = "spawn"
  /\ bin_exists
  /\ runs' = runs + 1
  /\ spawns' = spawns + 1
  /\ proc' = "running"
  /\ console' = console \o running_line
  /\ pc' = "wait"
  /\ UNCHANGED <<inputs, elapsed, returncode, file, final_file, cap_stdout,
                 cap_stderr, status, exit_code, report_json, res, summary,
                 outcome, ret, failure, resolves>>

\* run_closeout_demo lines 105-110: FileNotFoundError on a missing binary, any
\* other exception when the OS cannot start it; both return 1
run_closeout_demo_spawn_fails ==
  /\ prog = "scripts"
  /\ pc = "spawn"
  /\ runs' = runs + 1
  /\ failure' = IF bin_exists THEN "SpawnFailure" ELSE "BinaryNotFound"
  /\ console' = console \o running_line
                \o <<IF bin_exists
                     THEN "ERROR: Failed to run closeout_demo: [Errno 13] Permission denied: '"
                          \o BIN \o "'"
                     ELSE "ERROR: Binary not found: " \o BIN>>
  /\ exit_code' = LOCAL_ERROR
  /\ pc' = "report_code"
  /\ UNCHANGED <<inputs, elapsed, proc, returncode, file, final_file,
                 cap_stdout, cap_stderr, status, report_json, res, summary,
                 outcome, ret, spawns, resolves>>

\* run_closeout_demo lines 96-103
run_closeout_demo_return ==
  /\ prog = "scripts"
  /\ pc = "demo_output"
  /\ console' = console
       \o (IF verbose \/ returncode # 0
           THEN <<"STDOUT:", cap_stdout>>
                \o (IF cap_stderr # "" THEN <<"STDERR:", cap_stderr>> ELSE <<>>)
           ELSE <<>>)
  /\ exit_code' = returncode
  /\ pc' = "report_code"
  /\ UNCHANGED <<inputs, elapsed, proc, returncode, file, final_file,
                 cap_stdout, cap_stderr, status, report_json, res, summary,
                 outcome, ret, failure, runs, spawns, resolves>>

\* main lines 186-187
main_report_code ==
  /\ prog = "scripts"
  /\ pc = "report_code"
  /\ console' = console
       \o (IF exit_code # 0
           THEN <<"closeout_demo exited with code " \o ToString(exit_code)>>
           ELSE <<>>)
  /\ pc' = "parse"
  /\ UNCHANGED <<inputs, elapsed, proc, returncode, file, final_file,
                 cap_stdout, cap_stderr, status, exit_code, report_json, res,
                 summary, outcome, ret, failure, runs, spawns, resolves>>

parse_error_line(exc) ==
  IF exc = "" THEN <<>>
  ELSE IF exc = "FileNotFoundError" THEN <<"ERROR: JSON file not found: " \o OUT>>
  ELSE IF exc = "JSONDecodeError" THEN <<"ERROR: Invalid JSON in " \o OUT>>
  ELSE <<"ERROR: Failed to parse JSON">>

\* main lines 190-191
main_parse ==
  /\ prog = "scripts"
  /\ pc = "parse"
  /\ IF file # NoFile
     THEN LET r == parse_closeout_json(file, verbose)
          IN /\ report_json' = r.val
             /\ console' = console \o parse_error_line(r.exc)
             /\ resolves' = resolves + 1
             /\ pc' = "summary"
     ELSE /\ pc' = "return"
          /\ UNCHANGED <<report_json, console, resolves>>
  /\ UNCHANGED <<inputs, elapsed, proc, returncode, file, final_file,
                 cap_stdout, cap_stderr, status, exit_code, res, summary,
                 outcome, ret, failure, runs, spawns>>

\* main lines 192-201: an exception of generate_summary leaves main
main_summary ==
  /\ prog = "scripts"
  /\ pc = "summary"
  /\ IF truthy(report_json)
     THEN LET g == generate_summary(report_json)
          IN /\ summary' = [Raised(g.exc) EXCEPT !.text = g.text]
             /\ IF g.exc # ""
                THEN /\ outcome' = "raised"
                     /\ pc' = "done"
                     /\ UNCHANGED <<console, final_file>>
                ELSE /\ console' = Append(console, g.text)
                     /\ final_file' = IF json_is_final THEN final_file ELSE file
                     /\ pc' = "return"
                     /\ UNCHANGED outcome
     ELSE /\ pc' = "return"
          /\ UNCHANGED <<summary, outcome, console, final_file>>
  /\ UNCHANGED <<inputs, elapsed, proc, returncode, file, cap_stdout,
                 cap_stderr, status, exit_code, report_json, res, ret,
                 failure, runs, spawns, resolves>>

\* main line 203
main_return_code ==
  /\ prog = "scripts"
  /\ pc = "return"
  /\ ret' = exit_code
  /\ outcome' = "returned"
  /\ pc' = "done"
  /\ UNCHANGED <<inputs, elapsed, proc, returncode, file, final_file,
                 cap_stdout, cap_stderr, status, exit_code, report_json, res,
                 summary, console, failure, runs, spawns, resolves>>

(***************************************************************************)
(* The runs of a wrapper.                                                  *)
(***************************************************************************)
Next ==
  \/ EvaluatorWrites
  \/ EvaluatorExits
  \/ run_closeout_validate
  \/ run_closeout_spawn
  \/ run_closeout_spawn_fails
  \/ Tick
  \/ run_closeout_timeout
  \/ run_closeout_classify
  \/ run_closeout_resolve
  \/ run_closeout_return
  \/ main_summarize
  \/ main_stderr
  \/ main_return
  \/ main_ensure_dir
  \/ run_closeout_demo_spawn
  \/ run_closeout_demo_spawn_fails
  \/ run_closeout_demo_return
  \/ main_report_code
  \/ main_parse
  \/ main_summary
  \/ main_return_code

Spec == Init /\ [][Next]_vars

\* the wrapper's own steps and the timeout clock always proceed; nothing makes
\* the evaluator, an external process, write or exit
WrapperStep ==
  \/ run_closeout_validate
  \/ run_closeout_spawn
  \/ run_closeout_spawn_fails
  \/ Tick
  \/ run_closeout_timeout
  \/ run_closeout_classify
  \/ run_closeout_resolve
  \/ run_closeout_return
  \/ main_summarize
  \/ main_stderr
  \/ main_return
  \/ main_ensure_dir
  \/ run_closeout_demo_spawn
  \/ run_closeout_demo_spawn_fails
  \/ run_closeout_demo_return
  \/ main_report_code
  \/ main_parse
  \/ main_summary
  \/ main_return_code

FairNext == EvaluatorWrites \/ EvaluatorExits \/ WrapperStep
FairSpec == Init /\ [][FairNext]_vars /\ WF_vars(WrapperStep)

(***************************************************************************)
(* _summarize_report on its own, over report values of every shape.        *)
(***************************************************************************)
MaxIssues == 6

Absent == [t |-> "absent"]
\* the dict of the keys ks (in this order) whose value is not Absent
DictOf(ks, f) ==
  LET p == SelectSeq(ks, LAMBDA k : f[k] # Absent)
  IN PyDict(p, [k \in {p[i] : i \in 1..Len(p)} |-> f[k]])

GateKeys == <<"mass_gate", "disk_area_gate", "power_gate">>
GateVals == {Absent, PyStr("Pass"), PyStr("Fail"), PyInt(5), None}
GateDicts ==
  {DictOf(GateKeys, ("mass_gate" :> m) @@ ("disk_area_gate" :> d)
                    @@ ("power_gate" :> p)) : m, d, p \in GateVals}
GatesChoices == {Absent, None, PyInt(1), PyStr("Pass"), EmptyList} \cup GateDicts
FewGates ==
  {Absent, DictOf(GateKeys, ("mass_gate" :> PyStr("Pass"))
                            @@ ("disk_area_gate" :> PyStr("Pass"))
                            @@ ("power_gate" :> PyStr("Pass")))}

IssueKeys == <<"code", "message", "kind">>
Issue(code, message, kind) ==
  DictOf(IssueKeys, ("code" :> code) @@ ("message" :> message) @@ ("kind" :> kind))
IssueA == Issue(PyStr("E1"), PyStr("mass high"), PyStr("A"))
IssueB == Issue(PyStr("E2"), PyStr(Repeat("x", MSG_MAX_LEN + 1)), PyStr("B"))
NotARecord == PyInt(7)
CommonItems == {NotARecord, IssueA, IssueB}
OddItems ==
  {EmptyDict, Issue(PyStr("E3"), Absent, PyInt(1)), Issue(Absent, PyStr("m"), None),
   Issue(PyStr("E4"), PyStr("m"), PyList(<<PyStr("A")>>)),
   Issue(PyStr("E5"), PyStr("m"), EmptyDict)}

SeqsUpTo(S, n) == UNION {[1..k -> S] : k \in 0..n}
IssueLists ==
  {PyList(l) : l \in SeqsUpTo(CommonItems, MaxIssues)
                     \cup SeqsUpTo(CommonItems \cup OddItems, 2)}
IssuesChoices == {Absent, None, PyInt(3), PyStr("abc"), EmptyDict} \cup IssueLists
FewIssues == {Absent, EmptyList, PyList(<<IssueA, NotARecord, IssueB>>)}

Report(g, i) == DictOf(<<"gates", "issues">>, ("gates" :> g) @@ ("issues" :> i))
Reports ==
  {None, EmptyList, PyList(<<IssueA>>), PyStr("GO"), PyInt(0), PyFloat("nan")}
  \cup {Report(g, i) : g \in GatesChoices, i \in FewIssues}
  \cup {Report(g, i) : g \in FewGates, i \in IssuesChoices}

InitSum ==
  /\ prog = "summarizer"
  /\ pc = "call"
  /\ report_json \in Reports
  /\ bin_exists = TRUE
  /\ out_given = FALSE
  /\ verbose = FALSE
  /\ json_is_final = TRUE
  /\ timeout_s = 0
  /\ elapsed = 0
  /\ proc = "none"
  /\ returncode = 0
  /\ file = NoFile
  /\ final_file = NoFile
  /\ cap_stdout = ""
  /\ cap_stderr = ""
  /\ status = ""
  /\ exit_code = 0
  /\ res = <<>>
  /\ summary = NotCalled
  /\ console = <<>>
  /\ outcome = "running"
  /\ ret = 0
  /\ failure = ""
  /\ runs = 0
  /\ spawns = 0
  /\ resolves = 0

summarize_call ==
  /\ prog = "summarizer"
  /\ pc = "call"
  /\ summary' = _summarize_report(report_json)
  /\ outcome' = IF summary'.exc # "" THEN "raised" ELSE "returned"
  /\ pc' = "returned"
  /\ UNCHANGED <<inputs, elapsed, proc, returncode, file, final_file,
                 cap_stdout, cap_stderr, status, exit_code, report_json, res,
                 console, ret, failure, runs, spawns, resolves>>

NextSum == summarize_call
SpecSum == InitSum /\ [][NextSum]_vars

(***************************************************************************)
(* Properties.                                                             *)
(***************************************************************************)
\* the decision table of the specification
DecisionOf(e) ==
  CASE e = 0 -> "GO" [] e = 2 -> "NO_GO" [] e = 3 -> "NEEDS_DATA" [] OTHER -> "ERROR"

Forwarded == pc = "done" /\ proc = "exited"
ToolsClassified == prog = "tools" /\ proc = "exited" /\ pc # "classify"

\* C1: once run_closeout has classified the exit code, status is GO for 0,
\* NO_GO for 2, NEEDS_DATA for 3 and ERROR for every other code, negative codes
\* and 1 included, and never anything else.
C1_ClassifierTotal ==
  ToolsClassified =>
    /\ status \in {"GO", "NO_GO", "NEEDS_DATA", "ERROR"}
    /\ status = "GO" <=> returncode = 0
    /\ status = "NO_GO" <=> returncode = 2
    /\ status = "NEEDS_DATA" <=> returncode = 3
    /\ status = "ERROR" <=> returncode \notin {0, 2, 3}

C1_Witness == ToolsClassified /\ returncode < 0 /\ status = "ERROR"

\* C2: main returns the local error code on every orchestration failure, and
\* never returns that code when it forwards the exit code of an evaluator that ran.
C2_LocalErrorDistinct ==
  (pc = "done" /\ outcome = "returned") =>
    /\ failure # "" => ret = LOCAL_ERROR
    /\ failure = "" => ret # LOCAL_ERROR

\* C3: whenever the evaluator was spawned and exited, main returns exactly the
\* evaluator's exit code, whatever the report source held.
C3_ExitCodeForwarded ==
  Forwarded => (outcome = "returned" /\ ret = returncode)

\* C4: _summarize_report returns a summary text for every report value and
\* never raises.
C4_SummarizerNeverRaises ==
  (prog = "summarizer" /\ pc = "returned") => (summary.exc = "" /\ summary.text # "")

ReportSource == IF out_given THEN file ELSE cap_stdout

\* C5: once the evaluator has exited and the report is resolved, the report is
\* absent (None) if and only if the report source is missing or its content is
\* not valid JSON.
C5_AbsentIffUnreadable ==
  (proc = "exited" /\ resolves > 0) =>
    (report_json = None <=> (ReportSource = NoFile \/ ~IsValidJSON(ReportSource)))

\* C6: the status of every RunResult is the decision of its exit code, whether
\* the report was parsed, missing or malformed, from the file or from stdout.
C6_StatusFromExitCodeAlone ==
  res # <<>> => res[1].status = DecisionOf(res[1].exit_code)

C6_Witness ==
  /\ res # <<>>
  /\ res[1].out_json = None
  /\ res[1].out_path # None
  /\ file = D_TRUNCATED
  /\ res[1].status = "GO"

\* C7: every invocation eventually returns, and an invocation that timed out
\* has killed the evaluator and produced no RunResult, status or report.
C7_EveryInvocationReturns ==
  /\ <>(pc = "done")
  /\ [](failure = "TimeoutExceeded" =>
          (proc = "killed" /\ res = <<>> /\ status = "" /\ report_json = None))

\* the half of C7 that run_closeout, which passes a timeout, meets under FairSpec
ToolsInvocationReturns == (prog = "tools") ~> (pc = "done")

\* an issue entry that is a record with something to render
WellFormed(it) == isinstance(it, "dict") /\ top_lines_of(<<it>>) # <<>>

\* C8: the issue detail lines are those of the first min(5, n) well-formed
\* records of the whole issues list, in list order, and the one line "- (none)"
\* when there is none.
C8_FirstFiveWellFormed ==
  (prog = "summarizer" /\ pc = "returned" /\ summary.exc = "") =>
    LET issues == dict_get(report_json, "issues", EmptyList)
        wf == IF isinstance(issues, "list")
              THEN SelectSeq(issues.items, WellFormed) ELSE <<>>
    IN summary.top_lines = IF wf = <<>> THEN <<"- (none)">>
                           ELSE top_lines_of(slice_to(wf, TOP_ISSUES))

\* C9: each gate verdict shown is the report's value for that gate when it is a
\* string, and "Unknown" when the value is absent or is not a string.
C9_GateVerdicts ==
  (prog = "summarizer" /\ pc = "returned" /\ summary.exc = "") =>
    LET gates == dict_get(report_json, "gates", EmptyDict)
        shown(k) == LET v == dict_get(gates, k, Absent)
                    IN IF v.t = "str" THEN v.s ELSE "Unknown"
    IN summary.gates = [i \in 1..3 |-> shown(GateKeys[i])]

\* C10: in run_closeout the binary path is validated before any spawn (no
\* spawn on a missing binary), subprocess.run is called at most once, the
\* report is resolved at most once and only after the evaluator exited, and a
\* call that returns a result has spawned once and resolved once.
C10_OrderedOnce ==
  prog = "tools" =>
    /\ ~bin_exists => (runs = 0 /\ spawns = 0)
    /\ runs <= 1 /\ spawns <= runs
    /\ resolves <= 1
    /\ resolves > 0 => (proc = "exited" /\ spawns = 1)
    /\ res # <<>> => (runs = 1 /\ spawns = 1 /\ resolves = 1)

C10_Witness ==
  /\ prog = "tools"
  /\ pc = "done"
  /\ outcome = "returned"
  /\ failure = ""
  /\ out_given
  /\ runs = 1 /\ spawns = 1 /\ resolves = 1

=============================================================================
